---- MODULE Spec2Model ----
(***************************************************************************)
(* Model of the Boreas alive detection engine (src/boreas/alivedetection.c) *)
(* One run of start_alive_detection: the main (sender) thread, the sniffer  *)
(* thread with its pcap callback got_packet, the scan restrictions, the     *)
(* three host tables, the raw sockets, and everything the run publishes     *)
(* (Spec); the pacing of send_tcp, send_icmp and send_arp over the runs of  *)
(* one process (BurstSpec); and the task polling loops of src/omp/omp.c     *)
(* (OmpSpec).                                                               *)
(***************************************************************************)
EXTENDS Integers, Sequences, FiniteSets, TLC

(* ------------------------------ bounds -------------------------------- *)
\* Largest number of target hosts handed to start_alive_detection.
MaxTargets == 2
\* Largest value of the max_scan_hosts / max_alive_hosts preferences.
MaxPref == 2
\* The number of probes of a burst.  BURST is defined outside src/; the model
\* takes a small value for it.
BURST == 3
\* Largest number of runs of start_alive_detection in one process.
MaxRuns == 2
\* Largest number of children of a GET_TASKS response.
MaxChildren == 2

(* ----------------------------- constants ------------------------------ *)
INT_MAX == 2147483647

\* The addresses a captured frame can come from.  The targets of a run are
\* 1..n for some n <= MaxTargets; the addresses above n are not targets.
Addr == 1..MaxTargets

Threads == {"main", "sniffer"}

\* The alive_test bit flags, as a set of method names.
Methods == {"ICMP", "TCP_ACK_SERVICE", "TCP_SYN_SERVICE", "ARP", "CONSIDER_ALIVE"}

\* The method sets scan () has a branch for, and two it has no branch for.
AliveTests ==
  { {"TCP_ACK_SERVICE", "ICMP", "ARP"},
    {"TCP_ACK_SERVICE", "ARP"},
    {"ICMP", "ARP"},
    {"ICMP", "TCP_ACK_SERVICE"},
    {"ARP"},
    {"TCP_ACK_SERVICE"},
    {"TCP_SYN_SERVICE"},
    {"ICMP"},
    {"CONSIDER_ALIVE"},
    {"TCP_SYN_SERVICE", "ICMP"},
    {"CONSIDER_ALIVE", "ICMP"} }

\* A preference is unset (prefs_get returns NULL) or holds a number.
PrefValues == {[set |-> FALSE, val |-> 0]}
                \cup {[set |-> TRUE, val |-> v] : v \in 0..MaxPref}

VARIABLES
  alive_test,         \* the method set get_alive_test_methods () yields
  prefs,              \* the max_scan_hosts and max_alive_hosts preferences
  hosts,              \* the gvm_hosts_t list, in target table iteration order
  pc,                 \* position of the main thread in start_alive_detection
  spc,                \* position of the sniffer thread
  mutex,              \* owner of the rendezvous mutex
  sig_sent,           \* the sniffer has called pthread_cond_signal
  h,                  \* per thread: position and locals in handle_scan_restrictions
  li, ti,             \* scan (): current sender loop and targets iterated in it
  number_of_targets_checked,
  scan_restrictions,
  alivehosts, targethosts, deferred,
  tables,             \* "none", "live" or "destroyed"
  socks,              \* raw sockets currently open
  pcap_handle,        \* "null", "open" or "closed"
  main_kb,            \* scanner.main_kb is connected
  fin_msg_already_on_queue,
  queue,              \* everything published, in order
  probes,             \* the probes sent, in order
  break_requested, cancel_pending,
  captured,           \* source addresses of the frames handed to got_packet
  err,                \* the fatal error the run met: "none", "methods", "init", "capture"
  retval,             \* the value handed to pthread_exit (), -1 before the exit
  free_err,           \* what alive_detection_free () reported, "unset" before it
  release_calls,      \* the release steps alive_detection_free () went through
  count,              \* per sender function: its static int count
  run,                \* the number of the current run in this process
  run_base,           \* per sender: count when the current run started
  since,              \* per sender: probes sent in this run since its last pause
  pauses,             \* per sender: usleep (BURST_TIMEOUT) calls in this run
  gap,                \* per sender: probes sent in this run before its latest
                      \* pause, counted from the pause before it or the run start
  omp_fn,             \* the polling function running: "none", "start" or "end"
  id,                 \* its argument: the id of the task waited for
  omp_pc,             \* its position: "idle", "send", "read", "check", "sleep", "returned"
  entity,             \* the response read last
  omp_ret,            \* <<>> while the function runs, <<v>> once it returned v
  task_status         \* the run status of the task on the server

vars == <<alive_test, prefs, hosts, pc, spc, mutex, sig_sent, h, li, ti,
          number_of_targets_checked, scan_restrictions, alivehosts,
          targethosts, deferred, tables, socks, pcap_handle, main_kb,
          fin_msg_already_on_queue, queue, probes, break_requested,
          cancel_pending, captured, err, retval, free_err, release_calls,
          count, run, run_base, since, pauses, gap,
          omp_fn, id, omp_pc, entity, omp_ret, task_status>>

(* ------------------------------ helpers ------------------------------- *)
Range(s) == {s[i] : i \in 1..Len(s)}

Item(t, v) == [type |-> t, val |-> v]
HostItem(a) == Item("host", a)
FinishItem == Item("finish", 0)

\* A thread that is not in handle_scan_restrictions ().
Idle == [pc |-> "none", addr |-> 0, cnt |-> 0, stack |-> FALSE]

\* Sender loops that run TCP, ICMP, ARP in this order for every method set.
ScanPlanCanonical(test) ==
  IF test = {"TCP_ACK_SERVICE", "ICMP", "ARP"} THEN <<"tcp_ack", "icmp", "arp">>
  ELSE IF test = {"TCP_ACK_SERVICE", "ARP"} THEN <<"tcp_ack", "arp">>
  ELSE IF test = {"ICMP", "ARP"} THEN <<"icmp", "arp">>
  ELSE IF test = {"ICMP", "TCP_ACK_SERVICE"} THEN <<"tcp_ack", "icmp">>
  ELSE IF test = {"ARP"} THEN <<"arp">>
  ELSE IF test = {"TCP_ACK_SERVICE"} THEN <<"tcp_ack">>
  ELSE IF test = {"TCP_SYN_SERVICE"} THEN <<"tcp_syn">>
  ELSE IF test = {"ICMP"} THEN <<"icmp">>
  ELSE IF test = {"CONSIDER_ALIVE"} THEN <<"consider">>
  ELSE <<>>

\* The sender loops scan () runs for a method set, in order.
ScanPlan(test) ==
  IF test = {"TCP_ACK_SERVICE", "ICMP", "ARP"} THEN <<"tcp_ack", "icmp", "arp">>
  ELSE IF test = {"TCP_ACK_SERVICE", "ARP"} THEN <<"tcp_ack", "arp">>
  ELSE IF test = {"ICMP", "ARP"} THEN <<"icmp", "arp">>
  ELSE IF test = {"ICMP", "TCP_ACK_SERVICE"} THEN <<"icmp", "tcp_ack">>
  ELSE IF test = {"ARP"} THEN <<"arp">>
  ELSE IF test = {"TCP_ACK_SERVICE"} THEN <<"tcp_ack">>
  ELSE IF test = {"TCP_SYN_SERVICE"} THEN <<"tcp_syn">>
  ELSE IF test = {"ICMP"} THEN <<"icmp">>
  ELSE IF test = {"CONSIDER_ALIVE"} THEN <<"consider">>
  ELSE <<>>

\* The sockets set_all_needed_sockets () opens, in the order it opens them.
NeededSockets(test) ==
  (IF "ICMP" \in test THEN <<"icmpv4soc", "icmpv6soc">> ELSE <<>>)
  \o (IF "TCP_ACK_SERVICE" \in test \/ "TCP_SYN_SERVICE" \in test
        THEN <<"tcpv4soc", "tcpv6soc", "udpv4soc", "udpv6soc">> ELSE <<>>)
  \o (IF "ARP" \in test THEN <<"arpv4soc", "arpv6soc">> ELSE <<>>)

\* Scan restrictions taken from the preferences as they are.
InitRestrictionsAsSet(p) ==
  [max_scan_hosts |-> IF p.max_scan_hosts.set THEN p.max_scan_hosts.val
                                              ELSE INT_MAX,
   max_alive_hosts |-> IF p.max_alive_hosts.set THEN p.max_alive_hosts.val
                                                ELSE INT_MAX,
   alive_hosts_count |-> 0,
   max_scan_hosts_reached |-> FALSE,
   max_alive_hosts_reached |-> FALSE]

\* The scan restrictions alive_detection_init () sets up from the preferences.
InitRestrictions(p) ==
  LET scan_pref == IF p.max_scan_hosts.set THEN p.max_scan_hosts.val ELSE INT_MAX
      alive_pref == IF p.max_alive_hosts.set THEN p.max_alive_hosts.val ELSE INT_MAX
  IN [max_scan_hosts |-> scan_pref,
      max_alive_hosts |-> IF alive_pref < scan_pref THEN scan_pref ELSE alive_pref,
      alive_hosts_count |-> 0,
      max_scan_hosts_reached |-> FALSE,
      max_alive_hosts_reached |-> FALSE]

\* put_finish_signal_on_queue (): the finish signal, unless it is on the queue already.
PutFinishQueue(q, already) == IF already THEN q ELSE Append(q, FinishItem)

\* put_host_on_queue ()
PutHostQueue(q, a) == Append(q, HostItem(a))

(* ------------------------------- Init --------------------------------- *)
\* The targets 1..n in the order the target table iterates them.
TargetList(n) == [i \in 1..n |-> i]

\* The state before start_alive_detection is called.
BoreasInit ==
  /\ alive_test \in AliveTests
  /\ prefs \in [max_scan_hosts : PrefValues, max_alive_hosts : PrefValues]
  /\ \E n \in 0..MaxTargets : hosts = TargetList(n)
  /\ pc = "start"
  /\ spc = "none"
  /\ mutex = "free"
  /\ sig_sent = FALSE
  /\ h = [t \in Threads |-> Idle]
  /\ li = 0
  /\ ti = 0
  /\ number_of_targets_checked = 0
  /\ scan_restrictions = [max_scan_hosts |-> 0, max_alive_hosts |-> 0,
                          alive_hosts_count |-> 0,
                          max_scan_hosts_reached |-> FALSE,
                          max_alive_hosts_reached |-> FALSE]
  /\ alivehosts = {}
  /\ targethosts = {}
  /\ deferred = {}
  /\ tables = "none"
  /\ socks = {}
  /\ pcap_handle = "null"
  /\ main_kb = FALSE
  /\ fin_msg_already_on_queue = FALSE
  /\ queue = <<>>
  /\ probes = <<>>
  /\ break_requested = FALSE
  /\ cancel_pending = FALSE
  /\ captured = {}
  /\ err = "none"
  /\ retval = -1
  /\ free_err = "unset"
  /\ release_calls = {}

\* The functions with a static probe counter.
Senders == {"send_tcp", "send_icmp", "send_arp"}

\* No probe was sent in this process yet.
SendersInit ==
  /\ count = [s \in Senders |-> 0]
  /\ run = 1
  /\ run_base = [s \in Senders |-> 0]
  /\ since = [s \in Senders |-> 0]
  /\ pauses = [s \in Senders |-> 0]
  /\ gap = [s \in Senders |-> 0]

\* What entity_attribute () and entity_child () yield for what is missing.
NULL == "<null>"

\* No response was read.
NoEntity == [status |-> NULL, children |-> <<>>]

\* No polling function is running.
OmpIdle ==
  /\ omp_fn = "none"
  /\ id = "t1"
  /\ omp_pc = "idle"
  /\ entity = NoEntity
  /\ omp_ret = <<>>
  /\ task_status = "New"

Init == BoreasInit /\ SendersInit /\ OmpIdle

\* A process in which no run of start_alive_detection is under way.
BoreasIdle ==
  /\ BoreasInit
  /\ alive_test = {"ICMP"}
  /\ prefs = [max_scan_hosts |-> [set |-> FALSE, val |-> 0],
              max_alive_hosts |-> [set |-> FALSE, val |-> 0]]
  /\ hosts = <<>>

(* ----------------------- start_alive_detection ------------------------ *)
\* The pacing state of the senders, which the model of a run leaves alone.
burst_vars == <<count, run, run_base, since, pauses, gap>>

\* The inputs of a run.
inputs == <<alive_test, prefs, hosts>>

\* What alive_detection_free () reports.
free_vars == <<free_err, release_calls>>

\* The state of the OMP client, which Boreas does not touch.
omp_vars == <<omp_fn, id, omp_pc, entity, omp_ret, task_status>>

\* What no step before alive_detection_free () changes: the inputs of the
\* run, the state kept outside it, and the report of alive_detection_free ().
config == <<inputs, burst_vars, free_vars, omp_vars>>
sniffer_vars == <<spc, mutex, sig_sent, break_requested, cancel_pending,
                  captured>>
loop_vars == <<li, ti, number_of_targets_checked, probes>>
table_vars == <<alivehosts, targethosts, deferred, tables>>

\* A method lookup whose failure path exits without the finish signal.
GetAliveTestMethodsNoFinish ==
  /\ pc = "start"
  /\ \E ok \in BOOLEAN :
       IF ok
         THEN pc' = "init" /\ UNCHANGED <<err, retval>>
         ELSE err' = "methods" /\ retval' = 0 /\ pc' = "done"
  /\ UNCHANGED <<config, sniffer_vars, loop_vars, table_vars, h,
                 scan_restrictions, socks, pcap_handle, main_kb, queue,
                 fin_msg_already_on_queue>>

\* get_alive_test_methods () at the start of the run; on failure the finish
\* signal is put on the queue and the thread exits.
GetAliveTestMethods ==
  /\ pc = "start"
  /\ \E ok \in BOOLEAN :
       IF ok
         THEN /\ pc' = "init"
              /\ UNCHANGED <<queue, fin_msg_already_on_queue, err, retval>>
         ELSE /\ queue' = PutFinishQueue(queue, fin_msg_already_on_queue)
              /\ fin_msg_already_on_queue' = TRUE
              /\ err' = "methods"
              /\ retval' = 0
              /\ pc' = "done"
  /\ UNCHANGED <<config, sniffer_vars, loop_vars, table_vars, h,
                 scan_restrictions, socks, pcap_handle, main_kb>>

\* The sockets open after set_all_needed_sockets () got through k set_socket calls.
SocketsOpened(test, k) == {NeededSockets(test)[i] : i \in 1..k}

\* An initialization whose error is not looked at: the run goes on to scan ().
AliveDetectionInitGoesOn ==
  /\ pc = "init"
  /\ \E k \in 0..Len(NeededSockets(alive_test)), kb_ok \in BOOLEAN :
       /\ socks' = SocketsOpened(alive_test, k)
       /\ IF k = Len(NeededSockets(alive_test)) /\ kb_ok
            THEN /\ main_kb' = TRUE
                 /\ tables' = "live"
                 /\ alivehosts' = {}
                 /\ targethosts' = Range(hosts)
                 /\ deferred' = {}
                 /\ scan_restrictions' = InitRestrictions(prefs)
                 /\ UNCHANGED err
            ELSE /\ err' = "init"
                 /\ UNCHANGED <<main_kb, table_vars, scan_restrictions>>
  /\ pc' = "open_live"
  /\ UNCHANGED <<config, sniffer_vars, loop_vars, h, pcap_handle, queue,
                 fin_msg_already_on_queue, retval>>

\* alive_detection_init (): k set_socket calls succeed, then the Redis
\* connection is made or not; on failure the finish signal is put on the queue
\* and the thread exits.
AliveDetectionInit ==
  /\ pc = "init"
  /\ \E k \in 0..Len(NeededSockets(alive_test)), kb_ok \in BOOLEAN :
       /\ socks' = SocketsOpened(alive_test, k)
       /\ IF k = Len(NeededSockets(alive_test)) /\ kb_ok
            THEN /\ main_kb' = TRUE
                 /\ tables' = "live"
                 /\ alivehosts' = {}
                 /\ targethosts' = Range(hosts)
                 /\ deferred' = {}
                 /\ scan_restrictions' = InitRestrictions(prefs)
                 /\ pc' = "open_live"
                 /\ UNCHANGED <<queue, fin_msg_already_on_queue, err, retval>>
            ELSE /\ queue' = PutFinishQueue(queue, fin_msg_already_on_queue)
                 /\ fin_msg_already_on_queue' = TRUE
                 /\ err' = "init"
                 /\ retval' = 0
                 /\ pc' = "done"
                 /\ UNCHANGED <<main_kb, table_vars, scan_restrictions>>
  /\ UNCHANGED <<config, sniffer_vars, loop_vars, h, pcap_handle>>

(* ------------------------------ scan () ------------------------------- *)
\* open_live (): a handle, or NULL and scan () returns -2.
ScanOpenLive ==
  /\ pc = "open_live"
  /\ \E ok \in BOOLEAN :
       IF ok
         THEN pcap_handle' = "open" /\ pc' = "create" /\ UNCHANGED err
         ELSE pc' = "cleanup_fin" /\ err' = "capture" /\ UNCHANGED pcap_handle
  /\ UNCHANGED <<config, sniffer_vars, loop_vars, table_vars, h,
                 scan_restrictions, socks, main_kb, queue,
                 fin_msg_already_on_queue, retval>>

\* pthread_create (): the sniffer thread exists afterwards, or it does not.
PthreadCreate ==
  /\ pc = "create"
  /\ \E ok \in BOOLEAN : spc' = IF ok THEN "start" ELSE "none"
  /\ pc' = "lock"
  /\ UNCHANGED <<config, mutex, sig_sent, break_requested, cancel_pending,
                 captured, loop_vars, table_vars, h,
                 scan_restrictions, socks, pcap_handle, main_kb, queue,
                 fin_msg_already_on_queue, err, retval>>

main_only == <<config, spc, sig_sent, break_requested, cancel_pending,
               captured, loop_vars, table_vars, h, scan_restrictions,
               socks, pcap_handle, main_kb, queue, fin_msg_already_on_queue,
               err, retval>>

\* pthread_mutex_lock (&mutex) in scan ()
MainLock ==
  /\ pc = "lock"
  /\ mutex = "free"
  /\ mutex' = "main"
  /\ pc' = "wait"
  /\ UNCHANGED main_only

\* A wait that returns without a signal.
MainCondWaitReturnsAtOnce ==
  /\ pc = "wait"
  /\ mutex' = "free"
  /\ pc' = "woken"
  /\ UNCHANGED main_only

\* pthread_cond_wait (&cond, &mutex): releases the mutex and blocks.
MainCondWait ==
  /\ pc = "wait"
  /\ mutex' = "free"
  /\ pc' = "blocked"
  /\ UNCHANGED main_only

\* The woken main thread takes the mutex again, unlocks and destroys it,
\* sleeps, and enters the branch of its method set.
MainWake ==
  /\ pc = "woken"
  /\ mutex = "free"
  /\ pc' = "loop_check"
  /\ li' = 1
  /\ ti' = 0
  /\ UNCHANGED <<config, sniffer_vars, number_of_targets_checked, probes,
                 table_vars, h, scan_restrictions, socks, pcap_handle, main_kb,
                 queue, fin_msg_already_on_queue, err, retval>>

(* -------------------------- sniffer_thread () ------------------------- *)
sniffer_only == <<config, loop_vars, table_vars, h, scan_restrictions, socks,
                  pcap_handle, main_kb, queue, fin_msg_already_on_queue,
                  break_requested, cancel_pending, captured, err, retval>>

SnifferLock ==
  /\ spc = "start"
  /\ mutex = "free"
  /\ mutex' = "sniffer"
  /\ spc' = "signal"
  /\ UNCHANGED <<pc, sig_sent, sniffer_only>>

\* pthread_cond_signal (&cond): wakes the main thread if it is waiting, and is
\* lost otherwise.
SnifferSignal ==
  /\ spc = "signal"
  /\ sig_sent' = TRUE
  /\ pc' = IF pc = "blocked" THEN "woken" ELSE pc
  /\ spc' = "unlock"
  /\ UNCHANGED <<mutex, sniffer_only>>

\* pthread_mutex_unlock (&mutex), then pcap_loop () is entered.
SnifferUnlock ==
  /\ spc = "unlock"
  /\ mutex' = "free"
  /\ spc' = "loop"
  /\ UNCHANGED <<pc, sig_sent, sniffer_only>>

(* --------------------- handle_scan_restrictions () -------------------- *)
\* Everything handle_scan_restrictions () leaves alone, whoever runs it.
hsr_frame == <<config, spc, mutex, sig_sent, break_requested, cancel_pending,
               captured, li, probes, alivehosts, targethosts, tables,
               socks, pcap_handle, main_kb, err, retval>>

\* scan_restrictions.alive_hosts_count++ : the read ...
HsrIncLoad(t) ==
  /\ h[t].pc = "inc_load"
  /\ h' = [h EXCEPT ![t].cnt = scan_restrictions.alive_hosts_count,
                    ![t].pc = "inc_store"]
  /\ UNCHANGED <<hsr_frame, pc, ti, number_of_targets_checked,
                 scan_restrictions, deferred, queue, fin_msg_already_on_queue>>

\* ... and the write.
HsrIncStore(t) ==
  /\ h[t].pc = "inc_store"
  /\ scan_restrictions' =
       [scan_restrictions EXCEPT !.alive_hosts_count = h[t].cnt + 1]
  /\ h' = [h EXCEPT ![t].pc = "chk_scan"]
  /\ UNCHANGED <<hsr_frame, pc, ti, number_of_targets_checked, deferred, queue,
                 fin_msg_already_on_queue>>

\* A test that sends every alive host to the deferred table.
HsrChkScanAlwaysDefer(t) ==
  /\ h[t].pc = "chk_scan"
  /\ h' = [h EXCEPT ![t].pc = "defer"]
  /\ UNCHANGED <<hsr_frame, pc, ti, number_of_targets_checked,
                 scan_restrictions, deferred, queue, fin_msg_already_on_queue>>

\* if (!scan_restrictions.max_scan_hosts_reached)
HsrChkScan(t) ==
  /\ h[t].pc = "chk_scan"
  /\ h' = [h EXCEPT ![t].pc = IF ~scan_restrictions.max_scan_hosts_reached
                                THEN "put_host" ELSE "defer"]
  /\ UNCHANGED <<hsr_frame, pc, ti, number_of_targets_checked,
                 scan_restrictions, deferred, queue, fin_msg_already_on_queue>>

\* put_host_on_queue (scanner.main_kb, addr_str)
HsrPutHost(t) ==
  /\ h[t].pc = "put_host"
  /\ queue' = PutHostQueue(queue, h[t].addr)
  /\ h' = [h EXCEPT ![t].pc = "chk_fin"]
  /\ UNCHANGED <<hsr_frame, pc, ti, number_of_targets_checked,
                 scan_restrictions, deferred, fin_msg_already_on_queue>>

\* g_hash_table_add (alivehosts_not_to_be_sent_to_openvas, addr_str): the key
\* is the pointer handed in, which got_packet () takes from its own stack.
HsrDefer(t) ==
  /\ h[t].pc = "defer"
  /\ deferred' = deferred \cup {[addr |-> h[t].addr, dangling |-> h[t].stack]}
  /\ h' = [h EXCEPT ![t].pc = "chk_fin"]
  /\ UNCHANGED <<hsr_frame, pc, ti, number_of_targets_checked,
                 scan_restrictions, queue, fin_msg_already_on_queue>>

\* The condition under which the finish signal is put on the queue.
ScanCapCrossed(r) ==
  ~r.max_scan_hosts_reached /\ r.alive_hosts_count = r.max_scan_hosts

HsrChkFin(t) ==
  /\ h[t].pc = "chk_fin"
  /\ h' = [h EXCEPT ![t].pc = IF ScanCapCrossed(scan_restrictions)
                                THEN "set_fin" ELSE "chk_alive"]
  /\ UNCHANGED <<hsr_frame, pc, ti, number_of_targets_checked,
                 scan_restrictions, deferred, queue, fin_msg_already_on_queue>>

\* scan_restrictions.max_scan_hosts_reached = TRUE
HsrSetFin(t) ==
  /\ h[t].pc = "set_fin"
  /\ scan_restrictions' =
       [scan_restrictions EXCEPT !.max_scan_hosts_reached = TRUE]
  /\ h' = [h EXCEPT ![t].pc = "put_fin"]
  /\ UNCHANGED <<hsr_frame, pc, ti, number_of_targets_checked, deferred, queue,
                 fin_msg_already_on_queue>>

\* put_finish_signal_on_queue (&err)
HsrPutFin(t) ==
  /\ h[t].pc = "put_fin"
  /\ queue' = PutFinishQueue(queue, fin_msg_already_on_queue)
  /\ fin_msg_already_on_queue' = TRUE
  /\ h' = [h EXCEPT ![t].pc = "chk_alive"]
  /\ UNCHANGED <<hsr_frame, pc, ti, number_of_targets_checked,
                 scan_restrictions, deferred>>

\* The condition under which max_alive_hosts_reached is set.
AliveCapCrossed(r) == r.alive_hosts_count = r.max_alive_hosts

\* The last statement of handle_scan_restrictions () and the return to the
\* caller: got_packet () returns to pcap_loop (), the CONSIDER_ALIVE loop
\* counts the target and goes back to its loop condition.
HsrChkAlive(t) ==
  /\ h[t].pc = "chk_alive"
  /\ scan_restrictions' =
       IF AliveCapCrossed(scan_restrictions)
         THEN [scan_restrictions EXCEPT !.max_alive_hosts_reached = TRUE]
         ELSE scan_restrictions
  /\ h' = [h EXCEPT ![t] = Idle]
  /\ IF t = "main"
       THEN /\ number_of_targets_checked' = number_of_targets_checked + 1
            /\ ti' = ti + 1
            /\ pc' = "loop_check"
       ELSE UNCHANGED <<number_of_targets_checked, ti, pc>>
  /\ UNCHANGED <<hsr_frame, deferred, queue, fin_msg_already_on_queue>>

(* ---------------------------- got_packet () --------------------------- *)
\* A callback that takes every reply of a target for a new alive host.
GotPacketNoDedup(a) ==
  /\ spc = "loop"
  /\ h["sniffer"].pc = "none"
  /\ ~break_requested
  /\ captured' = captured \cup {a}
  /\ IF scan_restrictions.max_alive_hosts_reached
       THEN UNCHANGED <<alivehosts, h>>
       ELSE /\ alivehosts' = alivehosts \cup {a}
            /\ h' = IF a \in targethosts
                      THEN [h EXCEPT !["sniffer"] =
                              [pc |-> "inc_load", addr |-> a, cnt |-> 0,
                               stack |-> TRUE]]
                      ELSE h
  /\ UNCHANGED <<config, pc, spc, mutex, sig_sent, break_requested,
                 cancel_pending, loop_vars, targethosts, deferred, tables,
                 scan_restrictions, socks, pcap_handle, main_kb, queue,
                 fin_msg_already_on_queue, err, retval>>

\* A callback that does not look up the address in the target table.
GotPacketNoTargetTest(a) ==
  /\ spc = "loop"
  /\ h["sniffer"].pc = "none"
  /\ ~break_requested
  /\ captured' = captured \cup {a}
  /\ IF scan_restrictions.max_alive_hosts_reached
       THEN UNCHANGED <<alivehosts, h>>
       ELSE /\ alivehosts' = alivehosts \cup {a}
            /\ h' = IF a \notin alivehosts
                      THEN [h EXCEPT !["sniffer"] =
                              [pc |-> "inc_load", addr |-> a, cnt |-> 0,
                               stack |-> TRUE]]
                      ELSE h
  /\ UNCHANGED <<config, pc, spc, mutex, sig_sent, break_requested,
                 cancel_pending, loop_vars, targethosts, deferred, tables,
                 scan_restrictions, socks, pcap_handle, main_kb, queue,
                 fin_msg_already_on_queue, err, retval>>

\* pcap_loop () hands got_packet () a frame with source address a.
GotPacket(a) ==
  /\ spc = "loop"
  /\ h["sniffer"].pc = "none"
  /\ ~break_requested
  /\ captured' = captured \cup {a}
  /\ IF scan_restrictions.max_alive_hosts_reached
       THEN UNCHANGED <<alivehosts, h>>
       ELSE /\ alivehosts' = alivehosts \cup {a}
            /\ h' = IF a \notin alivehosts /\ a \in targethosts
                      THEN [h EXCEPT !["sniffer"] =
                              [pc |-> "inc_load", addr |-> a, cnt |-> 0,
                               stack |-> TRUE]]
                      ELSE h
  /\ UNCHANGED <<config, pc, spc, mutex, sig_sent, break_requested,
                 cancel_pending, loop_vars, targethosts, deferred, tables,
                 scan_restrictions, socks, pcap_handle, main_kb, queue,
                 fin_msg_already_on_queue, err, retval>>

\* pcap_loop () returns after pcap_breakloop () and the thread exits.
SnifferExit ==
  /\ spc = "loop"
  /\ h["sniffer"].pc = "none"
  /\ break_requested
  /\ spc' = "exited"
  /\ UNCHANGED <<pc, mutex, sig_sent, sniffer_only>>

\* The cancellation request is acted on at a cancellation point: the blocking
\* read of pcap_loop (), or the Redis I/O of put_host_on_queue () and
\* put_finish_signal_on_queue (), before or after the item was pushed.
SnifferCancelled ==
  /\ spc = "loop"
  /\ cancel_pending
  /\ h["sniffer"].pc \in {"none", "put_host", "put_fin"}
  /\ \E pushed \in BOOLEAN :
       /\ queue' = IF pushed /\ h["sniffer"].pc = "put_host"
                     THEN PutHostQueue(queue, h["sniffer"].addr)
                   ELSE IF pushed /\ h["sniffer"].pc = "put_fin"
                     THEN PutFinishQueue(queue, fin_msg_already_on_queue)
                   ELSE queue
       /\ fin_msg_already_on_queue' =
            (fin_msg_already_on_queue \/ (pushed /\ h["sniffer"].pc = "put_fin"))
  /\ h' = [h EXCEPT !["sniffer"] = Idle]
  /\ spc' = "exited"
  /\ UNCHANGED <<config, pc, mutex, sig_sent, break_requested, cancel_pending,
                 captured, loop_vars, table_vars, scan_restrictions,
                 socks, pcap_handle, main_kb, err, retval>>

(* ------------------------ scan (): sender loops ----------------------- *)
\* A loop condition that looks at the iterator only.
LoopContinuesIgnoringCap(n, i, r) == i < n

\* The condition of every sender loop: g_hash_table_iter_next () has a target
\* left and max_alive_hosts_reached is not set.
LoopContinues(n, i, r) == i < n /\ ~r.max_alive_hosts_reached

LoopCheck ==
  /\ pc = "loop_check"
  /\ IF li > Len(ScanPlan(alive_test))
       THEN pc' = "breakloop" /\ UNCHANGED <<li, ti>>
       ELSE IF LoopContinues(Len(hosts), ti, scan_restrictions)
         THEN pc' = "loop_body" /\ UNCHANGED <<li, ti>>
         ELSE pc' = "loop_check" /\ li' = li + 1 /\ ti' = 0
  /\ UNCHANGED <<config, sniffer_vars, number_of_targets_checked, probes,
                 table_vars, h, scan_restrictions, socks, pcap_handle, main_kb,
                 queue, fin_msg_already_on_queue, err, retval>>

\* send_tcp (), send_icmp () or send_arp () for the current target.
SendProbe ==
  /\ pc = "loop_body"
  /\ ScanPlan(alive_test)[li] # "consider"
  /\ probes' = Append(probes, [method |-> ScanPlan(alive_test)[li],
                               addr |-> hosts[ti + 1]])
  /\ number_of_targets_checked' = number_of_targets_checked + 1
  /\ ti' = ti + 1
  /\ pc' = "loop_check"
  /\ UNCHANGED <<config, sniffer_vars, li, table_vars, h, scan_restrictions,
                 socks, pcap_handle, main_kb, queue, fin_msg_already_on_queue,
                 err, retval>>

\* The CONSIDER_ALIVE loop calls handle_scan_restrictions (key) with the key of
\* the target table.
ConsiderAlive ==
  /\ pc = "loop_body"
  /\ ScanPlan(alive_test)[li] = "consider"
  /\ h' = [h EXCEPT !["main"] = [pc |-> "inc_load", addr |-> hosts[ti + 1],
                                 cnt |-> 0, stack |-> FALSE]]
  /\ pc' = "in_hsr"
  /\ UNCHANGED <<config, sniffer_vars, loop_vars, table_vars,
                 scan_restrictions, socks, pcap_handle, main_kb, queue,
                 fin_msg_already_on_queue, err, retval>>

(* ------------------------- scan (): shutdown -------------------------- *)
\* sleep (WAIT_FOR_REPLIES_TIMEOUT); pcap_breakloop (scanner.pcap_handle)
PcapBreakloop ==
  /\ pc = "breakloop"
  /\ break_requested' = TRUE
  /\ pc' = "cancel"
  /\ UNCHANGED <<config, spc, mutex, sig_sent, cancel_pending, captured,
                 loop_vars, table_vars, h, scan_restrictions, socks,
                 pcap_handle, main_kb, queue, fin_msg_already_on_queue, err, retval>>

\* A cancellation that is not followed by pthread_join ().
PthreadCancelNoJoin ==
  /\ pc = "cancel"
  /\ cancel_pending' = TRUE
  /\ pc' = "errmsg"
  /\ UNCHANGED <<config, spc, mutex, sig_sent, break_requested, captured,
                 loop_vars, table_vars, h, scan_restrictions, socks,
                 pcap_handle, main_kb, queue, fin_msg_already_on_queue, err, retval>>

\* sleep (2); pthread_cancel (sniffer_thread_id)
PthreadCancel ==
  /\ pc = "cancel"
  /\ cancel_pending' = TRUE
  /\ pc' = "join"
  /\ UNCHANGED <<config, spc, mutex, sig_sent, break_requested, captured,
                 loop_vars, table_vars, h, scan_restrictions, socks,
                 pcap_handle, main_kb, queue, fin_msg_already_on_queue, err, retval>>

\* A join that returns while the sniffer thread is still running.
PthreadJoinNoWait ==
  /\ pc = "join"
  /\ pcap_handle' = "closed"
  /\ pc' = "errmsg"
  /\ UNCHANGED <<config, sniffer_vars, loop_vars, table_vars, h,
                 scan_restrictions, socks, main_kb, queue,
                 fin_msg_already_on_queue, err, retval>>

\* pthread_join () returns once the sniffer is gone; pcap_close ().
PthreadJoin ==
  /\ pc = "join"
  /\ spc = "exited"
  /\ pcap_handle' = "closed"
  /\ pc' = "errmsg"
  /\ UNCHANGED <<config, sniffer_vars, loop_vars, table_vars, h,
                 scan_restrictions, socks, main_kb, queue,
                 fin_msg_already_on_queue, err, retval>>

\* The difference, not clamped at 0.
NotCheckedNoClamp(checked, n) == n - checked

\* The number in the ERRMSG message.
NotChecked(checked, n) == IF checked >= n THEN 0 ELSE n - checked

\* An ERRMSG message that does not depend on max_alive_hosts_reached.
SendErrMsgAlways ==
  /\ pc = "errmsg"
  /\ queue' = Append(queue,
                 Item("ERRMSG", NotChecked(number_of_targets_checked,
                                           Cardinality(targethosts))))
  /\ pc' = "dead_hosts"
  /\ UNCHANGED <<config, sniffer_vars, loop_vars, table_vars, h,
                 scan_restrictions, socks, pcap_handle, main_kb,
                 fin_msg_already_on_queue, err, retval>>

\* The ERRMSG message, if max_alive_hosts was reached and Redis can be reached.
SendErrMsg ==
  /\ pc = "errmsg"
  /\ IF scan_restrictions.max_alive_hosts_reached
       THEN \E conn \in BOOLEAN :
              queue' = IF conn
                         THEN Append(queue,
                                Item("ERRMSG",
                                     NotChecked(number_of_targets_checked,
                                                Cardinality(targethosts))))
                         ELSE queue
       ELSE UNCHANGED queue
  /\ pc' = "dead_hosts"
  /\ UNCHANGED <<config, sniffer_vars, loop_vars, table_vars, h,
                 scan_restrictions, socks, pcap_handle, main_kb,
                 fin_msg_already_on_queue, err, retval>>

(* ----------------- send_dead_hosts_to_ospd_openvas () ----------------- *)
\* An exclude step that removes nothing.
ExcludeNothing(d) == {{}}

\* An exclude step that empties alivehosts.
ExcludeEverything(d) == {Addr}

\* What g_hash_table_foreach (deferred, exclude, alivehosts) can remove: the
\* keys taken from the target table read as their address; a key that points
\* into a past stack frame of got_packet () reads as any address or as none.
ExcludeOutcomes(d) ==
  LET valid == {e.addr : e \in {x \in d : ~x.dangling}}
      ndangling == Cardinality({x \in d : x.dangling})
  IN {valid \cup D : D \in {X \in SUBSET Addr : Cardinality(X) <= ndangling}}

\* A count of the alive addresses that are not targets.
CountNotTargets(targets, alive) == Cardinality({a \in alive : a \notin targets})

\* The size of the target table minus the size of alivehosts.
CountBySizes(targets, alive) == Cardinality(targets) - Cardinality(alive)

\* The targets that are not in alivehosts.
CountDead(targets, alive) == Cardinality({a \in targets : a \notin alive})

SendDeadHosts ==
  /\ pc = "dead_hosts"
  /\ \E conn \in BOOLEAN :
       IF conn
         THEN \E R \in ExcludeOutcomes(deferred) :
                /\ alivehosts' = alivehosts \ R
                /\ queue' = Append(queue,
                              Item("DEADHOST", CountDead(targethosts, alivehosts')))
         ELSE UNCHANGED <<alivehosts, queue>>
  /\ pc' = "cleanup_fin"
  /\ UNCHANGED <<config, sniffer_vars, loop_vars, targethosts, deferred, tables,
                 h, scan_restrictions, socks, pcap_handle, main_kb,
                 fin_msg_already_on_queue, err, retval>>

(* ------------------ start_alive_detection: cleanup -------------------- *)
\* A cleanup handler that is popped without being run.
CleanupFinishSkipped ==
  /\ pc = "cleanup_fin"
  /\ pc' = "free"
  /\ UNCHANGED <<config, sniffer_vars, loop_vars, table_vars, h,
                 scan_restrictions, socks, pcap_handle, main_kb, queue,
                 fin_msg_already_on_queue, err, retval>>

\* pthread_cleanup_pop (1): put_finish_signal_on_queue (&fin_err)
CleanupFinish ==
  /\ pc = "cleanup_fin"
  /\ queue' = PutFinishQueue(queue, fin_msg_already_on_queue)
  /\ fin_msg_already_on_queue' = TRUE
  /\ pc' = "free"
  /\ UNCHANGED <<config, sniffer_vars, loop_vars, table_vars, h,
                 scan_restrictions, socks, pcap_handle, main_kb, err, retval>>

\* The sockets alive_detection_free () closes: those of the method set, unless
\* get_alive_test_methods () fails.
SocketsClosed(test, methods_ok) ==
  IF methods_ok THEN Range(NeededSockets(test)) ELSE {}

\* The release steps of alive_detection_free () for a method set: a close ()
\* for every socket of the set, and kb_lnk_reset ().
ReleaseSteps(test) == Range(NeededSockets(test)) \cup {"kb_lnk_reset"}

\* pthread_cleanup_pop (1): alive_detection_free (&free_err), then
\* pthread_exit (0).  The sockets are closed only if get_alive_test_methods ()
\* succeeds; the error is BOREAS_CLEANUP_ERROR if it fails or if a close () or
\* kb_lnk_reset () reports an error, and is only logged.  Destroying the
\* deferred table frees keys it does not own (stack addresses, keys of the
\* target table): the process may abort.
AliveDetectionFree ==
  /\ pc = "free"
  /\ \E methods_ok \in BOOLEAN, step_failed \in BOOLEAN :
       /\ socks' = socks \ SocketsClosed(alive_test, methods_ok)
       /\ release_calls' = SocketsClosed(alive_test, methods_ok)
                             \cup {"kb_lnk_reset"}
       /\ free_err' = IF ~methods_ok \/ step_failed
                        THEN "BOREAS_CLEANUP_ERROR" ELSE "NO_ERROR"
  /\ main_kb' = FALSE
  /\ tables' = "destroyed"
  /\ pc' \in IF deferred = {} THEN {"done"} ELSE {"done", "crashed"}
  /\ retval' = IF pc' = "done" THEN 0 ELSE retval
  /\ UNCHANGED <<inputs, burst_vars, omp_vars, sniffer_vars, loop_vars, alivehosts,
                 targethosts, deferred, h, scan_restrictions, pcap_handle,
                 queue, fin_msg_already_on_queue, err>>

(* ------------------- send_tcp, send_icmp, send_arp -------------------- *)
\* Everything of a run of start_alive_detection.
boreas_vars == <<alive_test, prefs, hosts, pc, spc, mutex, sig_sent, h, li, ti,
                 number_of_targets_checked, scan_restrictions, alivehosts,
                 targethosts, deferred, tables, socks, pcap_handle, main_kb,
                 fin_msg_already_on_queue, queue, probes, break_requested,
                 cancel_pending, captured, err, retval, free_vars>>

\* The most probes one sender sends in one run of the pacing model.
ProbesPerRun == BURST + BURST

\* A sender that sends its probe first and pauses after every BURST probes.
SendPausingAfter(s) ==
  /\ count[s] - run_base[s] < ProbesPerRun
  /\ count' = [count EXCEPT ![s] = count[s] + 1]
  /\ IF (count[s] + 1) % BURST = 0
       THEN /\ pauses' = [pauses EXCEPT ![s] = pauses[s] + 1]
            /\ gap' = [gap EXCEPT ![s] = since[s] + 1]
            /\ since' = [since EXCEPT ![s] = 0]
       ELSE /\ since' = [since EXCEPT ![s] = since[s] + 1]
            /\ UNCHANGED <<pauses, gap>>
  /\ UNCHANGED <<boreas_vars, omp_vars, run, run_base>>

\* One call of send_tcp (), send_icmp () or send_arp (): count++, then
\* usleep (BURST_TIMEOUT) if count % BURST == 0, then the probe is sent.
Send(s) ==
  /\ count[s] - run_base[s] < ProbesPerRun
  /\ count' = [count EXCEPT ![s] = count[s] + 1]
  /\ IF (count[s] + 1) % BURST = 0
       THEN /\ pauses' = [pauses EXCEPT ![s] = pauses[s] + 1]
            /\ gap' = [gap EXCEPT ![s] = since[s]]
            /\ since' = [since EXCEPT ![s] = 1]
       ELSE /\ since' = [since EXCEPT ![s] = since[s] + 1]
            /\ UNCHANGED <<pauses, gap>>
  /\ UNCHANGED <<boreas_vars, omp_vars, run, run_base>>

\* The run ends and start_alive_detection is called again in the same
\* process: the static counters keep their values.
NextRun ==
  /\ run < MaxRuns
  /\ run' = run + 1
  /\ run_base' = count
  /\ since' = [s \in Senders |-> 0]
  /\ pauses' = [s \in Senders |-> 0]
  /\ gap' = [s \in Senders |-> 0]
  /\ UNCHANGED <<boreas_vars, omp_vars, count>>

BurstInit == BoreasIdle /\ SendersInit /\ OmpIdle

BurstNext == (\E s \in Senders : Send(s)) \/ NextRun

BurstSpec == BurstInit /\ [][BurstNext]_vars

(* ------- omp_wait_for_task_start, omp_wait_for_task_end (omp.c) ------- *)
\* The run states of a task.
RunStates == {"New", "Requested", "Running", "Stopped", "Done", "Internal Error"}

\* The run states a task does not leave.
FinalStates == {"Stopped", "Done", "Internal Error"}

\* The status attribute of a response: missing, empty, 2xx or not.
ResponseStatus == {NULL, "", "200", "400"}

\* The children of a response: tasks and other elements, with or without an
\* id attribute and a status child.  The status of a task is what the server
\* holds for the task waited for (that of another task is never read).
Children(st) == [name : {"task", "TASK", "sort"},
                 id : {NULL, "t1", "T1", "t2"},
                 status : {NULL, st}]

ChildLists(st) ==
  UNION {[1..n -> Children(st)] : n \in 0..MaxChildren}

\* The responses read_entity () can yield while the task has run status st.
Responses(st) == [status : ResponseStatus, children : ChildLists(st)]

\* strcasecmp () == 0
Lower(str) == IF str = "TASK" THEN "task" ELSE IF str = "T1" THEN "t1" ELSE str
StrCaseEq(a, b) == Lower(a) = Lower(b)

\* status[0] == '2'
Is2xx(status) == status \in {"200"}

\* DO_CHILDREN over the response from child i on: <<"error">> for a task
\* without id, or the task waited for without status (return -1 inside the
\* loop), <<"found", text>> for the run state of the task waited for, and
\* <<"absent">> when the loop ends with run_state == NULL.
RECURSIVE FindRunState(_, _, _)
FindRunState(children, i, task) ==
  IF i > Len(children) THEN <<"absent">>
  ELSE IF ~StrCaseEq(children[i].name, "task")
    THEN FindRunState(children, i + 1, task)
  ELSE IF children[i].id = NULL THEN <<"error">>
  ELSE IF ~StrCaseEq(children[i].id, task)
    THEN FindRunState(children, i + 1, task)
  ELSE IF children[i].status = NULL THEN <<"error">>
  ELSE <<"found", children[i].status>>

\* What omp_wait_for_task_start does with a response: <<v>> to return v,
\* <<>> to sleep and poll again.
WaitForTaskStartCheck(e, task) ==
  IF e.status = NULL \/ e.status = "" THEN <<-1>>
  ELSE IF ~Is2xx(e.status) THEN <<>>
  ELSE LET r == FindRunState(e.children, 1, task)
       IN  IF r[1] # "found" THEN <<-1>>
           ELSE IF r[2] = "Running" \/ r[2] = "Done" THEN <<0>>
           ELSE IF r[2] = "Internal Error" THEN <<1>>
           ELSE <<>>

\* What omp_wait_for_task_end does with a response.
WaitForTaskEndCheck(e, task) ==
  IF e.status = NULL \/ e.status = "" THEN <<-1>>
  ELSE IF ~Is2xx(e.status) THEN <<>>
  ELSE LET r == FindRunState(e.children, 1, task)
       IN  IF r[1] # "found" THEN <<-1>>
           ELSE IF r[2] = "Done" THEN <<0>>
           ELSE IF r[2] = "Internal Error" THEN <<1>>
           ELSE IF r[2] = "Stopped" THEN <<1>>
           ELSE <<>>

\* openvas_server_sendf (session, "<get_tasks/>")
OmpSend ==
  /\ omp_pc = "send"
  /\ \E ok \in BOOLEAN :
       IF ok THEN omp_pc' = "read" /\ UNCHANGED omp_ret
             ELSE omp_pc' = "returned" /\ omp_ret' = <<-1>>
  /\ UNCHANGED <<boreas_vars, burst_vars, omp_fn, id, entity, task_status>>

\* read_entity (session, &entity)
OmpRead ==
  /\ omp_pc = "read"
  /\ \/ /\ omp_pc' = "returned"
        /\ omp_ret' = <<-1>>
        /\ UNCHANGED entity
     \/ /\ entity' \in Responses(task_status)
        /\ omp_pc' = "check"
        /\ UNCHANGED omp_ret
  /\ UNCHANGED <<boreas_vars, burst_vars, omp_fn, id, task_status>>

\* The checks of the response.  entity is local to one round of the loop;
\* after a return it keeps the response the function returned on, so that
\* what the function observed can be stated.
OmpCheck ==
  /\ omp_pc = "check"
  /\ LET out == IF omp_fn = "start" THEN WaitForTaskStartCheck(entity, id)
                                    ELSE WaitForTaskEndCheck(entity, id)
     IN  IF out = <<>>
           THEN omp_pc' = "sleep" /\ entity' = NoEntity /\ UNCHANGED omp_ret
           ELSE omp_pc' = "returned" /\ omp_ret' = out /\ UNCHANGED entity
  /\ UNCHANGED <<boreas_vars, burst_vars, omp_fn, id, task_status>>

\* sleep (1), and the loop starts again.
OmpSleep ==
  /\ omp_pc = "sleep"
  /\ omp_pc' = "send"
  /\ UNCHANGED <<boreas_vars, burst_vars, omp_fn, id, entity, omp_ret,
                 task_status>>

\* The task goes on to its next run state on the server.
TaskStep ==
  /\ omp_pc # "idle"
  /\ \/ task_status = "New" /\ task_status' \in {"Requested", "Stopped"}
     \/ task_status = "Requested" /\ task_status' \in {"Running", "Stopped"}
     \/ task_status = "Running"
          /\ task_status' \in {"Done", "Stopped", "Internal Error"}
  /\ UNCHANGED <<boreas_vars, burst_vars, omp_fn, id, omp_pc, entity, omp_ret>>

\* One of the two functions is called for a task in some run state.
OmpInit ==
  /\ BoreasIdle
  /\ SendersInit
  /\ omp_fn \in {"start", "end"}
  /\ id \in {"t1", "t2"}
  /\ omp_pc = "send"
  /\ entity = NoEntity
  /\ omp_ret = <<>>
  /\ task_status \in RunStates

OmpClientNext == OmpSend \/ OmpRead \/ OmpCheck \/ OmpSleep

OmpNext == OmpClientNext \/ TaskStep

OmpSpec == OmpInit /\ [][OmpNext]_vars

\* The polling function is scheduled again and again until it returns.
OmpFairSpec == OmpSpec /\ WF_vars(OmpClientNext)

(* ------------------------------- Next --------------------------------- *)
MainNext ==
  \/ GetAliveTestMethods
  \/ AliveDetectionInit
  \/ ScanOpenLive
  \/ PthreadCreate
  \/ MainLock
  \/ MainCondWait
  \/ MainWake
  \/ LoopCheck
  \/ SendProbe
  \/ ConsiderAlive
  \/ PcapBreakloop
  \/ PthreadCancel
  \/ PthreadJoin
  \/ SendErrMsg
  \/ SendDeadHosts
  \/ CleanupFinish
  \/ AliveDetectionFree

HsrNext(t) ==
  \/ HsrIncLoad(t)
  \/ HsrIncStore(t)
  \/ HsrChkScan(t)
  \/ HsrPutHost(t)
  \/ HsrDefer(t)
  \/ HsrChkFin(t)
  \/ HsrSetFin(t)
  \/ HsrPutFin(t)
  \/ HsrChkAlive(t)

SnifferNext ==
  \/ SnifferLock
  \/ SnifferSignal
  \/ SnifferUnlock
  \/ \E a \in Addr : GotPacket(a)
  \/ SnifferExit
  \/ SnifferCancelled

Next == MainNext \/ SnifferNext \/ \E t \in Threads : HsrNext(t)

Spec == Init /\ [][Next]_vars

\* Both threads are scheduled again and again as long as they can take a step.
FairSpec ==
  /\ Spec
  /\ WF_vars(MainNext \/ HsrNext("main"))
  /\ WF_vars(SnifferNext \/ HsrNext("sniffer"))

(* ------------------------ what a run published ------------------------ *)
\* The items of the alive detection queue: hosts and the finish signal.
IsAliveQueueItem(x) == x.type \in {"host", "finish"}
AliveQueue == SelectSeq(queue, IsAliveQueueItem)

PublishCount(a) == Cardinality({i \in DOMAIN queue : queue[i] = HostItem(a)})
PublishedHosts == {a \in Addr : PublishCount(a) > 0}
FinishCount == Cardinality({i \in DOMAIN queue : queue[i].type = "finish"})
DeferredAddrs == {e.addr : e \in deferred}

\* The thread has left start_alive_detection.
Ended == pc \in {"done", "crashed"}

(* ------------------------------- claims ------------------------------- *)

\* C1: each target address is passed to put_host_on_queue at most once in a
\* run, whatever the method set, the caps and the interleaving.
C1_PublishedAtMostOnce == \A a \in Addr : PublishCount(a) <= 1

C3_FinishAndReturn == <>(Ended /\ FinishCount >= 1)

SnifferJoined == pc \in {"errmsg", "dead_hosts"}

C6_DeadIsTargetsMinusPublished ==
  alive_test = {"CONSIDER_ALIVE"} =>
    \A i \in DOMAIN queue :
      queue[i].type = "DEADHOST" =>
        queue[i].val = Cardinality(targethosts)
                         - Cardinality(PublishedHosts \cap targethosts)

C8_NothingOpenOnReturn == pc = "done" => (socks = {} /\ pcap_handle # "open")

\* The number of hosts among the first i items of a queue.
HostsUpTo(q, i) == Cardinality({j \in 1..i : q[j].type = "host"})

\* C9: with max_scan_hosts = k >= 1 at most k hosts are put on the queue, and
\* what follows the k-th host on the queue is the finish signal.
C9_AtMostKThenFinish ==
  (tables # "none" /\ scan_restrictions.max_scan_hosts >= 1) =>
    /\ HostsUpTo(AliveQueue, Len(AliveQueue)) <= scan_restrictions.max_scan_hosts
    /\ \A i \in 1..(Len(AliveQueue) - 1) :
         (AliveQueue[i].type = "host"
            /\ HostsUpTo(AliveQueue, i) = scan_restrictions.max_scan_hosts)
           => AliveQueue[i + 1].type = "finish"

\* C10: no host is put on the queue after the finish signal.
C10_NoHostAfterFinish ==
  \A i, j \in DOMAIN queue :
    (i < j /\ queue[i].type = "finish") => queue[j].type # "host"

(* ----------------------- edge cases of the caps ----------------------- *)
\* The preference is set to the value v.
PrefIs(p, v) == p.set /\ p.val = v

\* The hosts put on the queue so far.
HostsOnQueue == HostsUpTo(queue, Len(queue))

\* The sender loops are over and the run met no fatal error.
LoopsDone ==
  /\ err = "none"
  /\ pc \in {"breakloop", "cancel", "join", "errmsg", "dead_hosts",
             "cleanup_fin", "free", "done", "crashed"}

\* C11: with the preference max_scan_hosts = 0 no target address is ever put
\* on the queue, and a run that has ended has put the finish signal on it.
C11_NoHostWhenScanCapZero ==
  PrefIs(prefs.max_scan_hosts, 0) =>
    /\ HostsOnQueue = 0
    /\ Ended => FinishCount = 1

\* C12: with the preference max_alive_hosts = 0, max_alive_hosts_reached is
\* true once the first alive detection has been handled, so that no probe
\* follows it, and in a CONSIDER_ALIVE run no target is processed at all.
C12_NoProbeWhenAliveCapZero ==
  (PrefIs(prefs.max_alive_hosts, 0) /\ tables = "live") =>
    /\ (scan_restrictions.alive_hosts_count >= 1
          /\ \A t \in Threads : h[t].pc = "none")
         => scan_restrictions.max_alive_hosts_reached
    /\ alive_test = {"CONSIDER_ALIVE"}
         => (number_of_targets_checked = 0 /\ h["main"].pc = "none")

\* C13: in a CONSIDER_ALIVE run over more than m targets with max_alive_hosts
\* = m >= 1 and no max_scan_hosts preference, exactly m addresses are on the
\* queue and max_alive_hosts_reached is true when the sender loop is over.
C13_AliveCapAloneTakesEffect ==
  (/\ alive_test = {"CONSIDER_ALIVE"}
   /\ ~prefs.max_scan_hosts.set
   /\ prefs.max_alive_hosts.set
   /\ prefs.max_alive_hosts.val >= 1
   /\ Len(hosts) > prefs.max_alive_hosts.val
   /\ LoopsDone)
    => /\ HostsOnQueue = prefs.max_alive_hosts.val
       /\ scan_restrictions.max_alive_hosts_reached

\* The value of max_scan_hosts a run works with: the preference, or no limit.
ScanCap(p) == IF p.max_scan_hosts.set THEN p.max_scan_hosts.val ELSE INT_MAX

\* C14: in a CONSIDER_ALIVE run in which the sniffer captured no reply, once
\* the sender loop is over the number of addresses on the queue is
\* min(|targets|, max_scan_hosts), each a distinct target, and no probe was sent.
C14_ConsiderAlivePublishesUpToCap ==
  (alive_test = {"CONSIDER_ALIVE"} /\ captured = {} /\ LoopsDone) =>
    /\ HostsOnQueue = IF Len(hosts) < ScanCap(prefs)
                        THEN Len(hosts) ELSE ScanCap(prefs)
    /\ \A a \in Addr : PublishCount(a) <= 1
    /\ PublishedHosts \subseteq Range(hosts)
    /\ probes = <<>>

\* C15: in a CONSIDER_ALIVE run the DEADHOST message carries 0.
C15_ConsiderAliveNoDeadHost ==
  alive_test = {"CONSIDER_ALIVE"} =>
    \A i \in DOMAIN queue : queue[i].type = "DEADHOST" => queue[i].val = 0

SuccessStatus == 0

\* C18: a run that ended in a fatal error exits with a value that differs
\* from the value a successful run exits with.
C18_ExitStatusShowsError ==
  (pc = "done" /\ err # "none") => retval # SuccessStatus

C20_CaptureFailureCleansUp ==
  err = "capture" =>
    /\ spc = "none"
    /\ probes = <<>>
    /\ \A i \in DOMAIN queue : queue[i] = FinishItem
    /\ pc = "done" => (FinishCount = 1 /\ tables = "destroyed"
                         /\ ~main_kb /\ socks = {})

(* ------------------------ end of the scan ---------------------------- *)
\* The number of messages of a type on the queue.
CountType(t) == Cardinality({i \in DOMAIN queue : queue[i].type = t})

C22_SingleWriter == ~(h["main"].pc # "none" /\ h["sniffer"].pc # "none")

\* The ERRMSG step of scan () is over and the run met no fatal error.
AfterErrMsg ==
  /\ err = "none"
  /\ pc \in {"dead_hosts", "cleanup_fin", "free", "done", "crashed"}

\* C23 as stated: after the ERRMSG step exactly one ERRMSG message is on the
\* queue if max_alive_hosts_reached is true, and none if it is false.
C23_ErrMsgIffCapReached ==
  AfterErrMsg =>
    CountType("ERRMSG")
      = IF scan_restrictions.max_alive_hosts_reached THEN 1 ELSE 0

\* C23 as amended: at most one ERRMSG message is put on the queue; it is put
\* there in the ERRMSG step of scan (), after the sniffer was joined and while
\* the tables are live, only if max_alive_hosts_reached is true, and before the
\* DEADHOST message.  (It is not sent when Redis cannot be reached.)
C23_ErrMsgOnlyIfCapReached ==
  /\ CountType("ERRMSG") <= 1
  /\ pc = "errmsg" => (CountType("ERRMSG") = 0 /\ tables = "live"
                         /\ spc = "exited")
  /\ CountType("ERRMSG") = 1 =>
       /\ AfterErrMsg
       /\ scan_restrictions.max_alive_hosts_reached
  /\ \A i, j \in DOMAIN queue :
       (i < j /\ queue[i].type = "DEADHOST") => queue[j].type # "ERRMSG"

\* The ERRMSG message is on the queue, followed by the DEADHOST message.
C23_Witness ==
  /\ pc = "done"
  /\ \E i \in 1..(Len(queue) - 1) :
       queue[i].type = "ERRMSG" /\ queue[i + 1].type = "DEADHOST"

\* C24: what a run publishes is a function of its inputs.  For a
\* CONSIDER_ALIVE run over the targets 1 and 2 with max_scan_hosts = 1 whose
\* only captured reply comes from target 2, one run publishes target 1
\* (C24_SenderFirstRun), so every run with these inputs publishes target 1.
C24_SameInputsSameOutput ==
  (/\ alive_test = {"CONSIDER_ALIVE"}
   /\ PrefIs(prefs.max_scan_hosts, 1)
   /\ ~prefs.max_alive_hosts.set
   /\ hosts = TargetList(2)
   /\ captured = {2}
   /\ pc = "done")
    => PublishedHosts = {1}

\* The run with the inputs of C24_SameInputsSameOutput that publishes target 1.
C24_SenderFirstRun ==
  /\ alive_test = {"CONSIDER_ALIVE"}
  /\ PrefIs(prefs.max_scan_hosts, 1)
  /\ ~prefs.max_alive_hosts.set
  /\ hosts = TargetList(2)
  /\ captured = {2}
  /\ pc = "done"
  /\ PublishedHosts = {1}

\* Preferences that hold negative numbers as well.
WidePrefValues == {[set |-> FALSE, val |-> 0]}
                    \cup {[set |-> TRUE, val |-> v] : v \in (0 - MaxPref)..MaxPref}

\* C25: where alive_detection_init is about to run, it would leave
\* max_alive_hosts >= max_scan_hosts for every combination of unset, zero,
\* negative and positive preferences; and once it has run, the two values
\* are the ones it set, with max_alive_hosts >= max_scan_hosts, for the rest
\* of the run.
C25_AliveCapNotBelowScanCap ==
  /\ pc = "init" =>
       \A p \in [max_scan_hosts : WidePrefValues,
                 max_alive_hosts : WidePrefValues] :
         LET r == InitRestrictions(p)
         IN  r.max_alive_hosts >= r.max_scan_hosts
  /\ tables # "none" =>
       LET r == InitRestrictions(prefs)
       IN  /\ scan_restrictions.max_alive_hosts
                >= scan_restrictions.max_scan_hosts
           /\ scan_restrictions.max_scan_hosts = r.max_scan_hosts
           /\ scan_restrictions.max_alive_hosts = r.max_alive_hosts

\* max_alive_hosts = 1 was raised to max_scan_hosts = 2, and the run went on
\* to count an alive host.
C25_Witness ==
  /\ PrefIs(prefs.max_scan_hosts, 2)
  /\ PrefIs(prefs.max_alive_hosts, 1)
  /\ scan_restrictions.max_alive_hosts = 2
  /\ scan_restrictions.alive_hosts_count >= 1

(* ------------------------------ probes ------------------------------- *)
\* The place of a probe in the order TCP, ICMP, ARP.
CanonicalRank(m) == IF m \in {"tcp_ack", "tcp_syn"} THEN 1
                    ELSE IF m = "icmp" THEN 2 ELSE 3

\* C26 as stated: the probes of a run are sent in the order TCP, ICMP, ARP.
C26_TcpIcmpArpOrder ==
  \A i, j \in DOMAIN probes :
    i < j => CanonicalRank(probes[i].method) <= CanonicalRank(probes[j].method)

\* C26 as amended: the probes of a run are sent in the order TCP, ICMP, ARP,
\* except for the method set ICMP | TCP_ACK_SERVICE, where every ICMP probe is
\* sent before every TCP probe.
C26_OrderPerMethodSet ==
  \A i, j \in DOMAIN probes :
    i < j =>
      IF alive_test = {"ICMP", "TCP_ACK_SERVICE"}
        THEN ~(probes[i].method = "tcp_ack" /\ probes[j].method = "icmp")
        ELSE CanonicalRank(probes[i].method)
               <= CanonicalRank(probes[j].method)

\* ICMP | TCP_ACK_SERVICE over two targets: two ICMP probes, then two TCP probes.
C26_Witness ==
  /\ alive_test = {"ICMP", "TCP_ACK_SERVICE"}
  /\ Len(probes) = 4
  /\ probes[2].method = "icmp"
  /\ probes[3].method = "tcp_ack"

\* The probe a method sends.
ProbeOf(m) == IF m = "ICMP" THEN "icmp"
              ELSE IF m = "TCP_ACK_SERVICE" THEN "tcp_ack"
              ELSE IF m = "TCP_SYN_SERVICE" THEN "tcp_syn"
              ELSE "arp"

\* The number of probes of a method sent to an address.
ProbeCount(m, a) ==
  Cardinality({i \in DOMAIN probes : probes[i] = [method |-> m, addr |-> a]})

\* C27: for every set of probing methods, when the sender loops are over and
\* max_alive_hosts_reached is false, one probe of each enabled method has been
\* sent to every target.
C27_EveryMethodProbesEveryTarget ==
  (/\ alive_test \subseteq {"ICMP", "TCP_ACK_SERVICE", "TCP_SYN_SERVICE", "ARP"}
   /\ LoopsDone
   /\ ~scan_restrictions.max_alive_hosts_reached)
    => \A m \in alive_test : \A a \in targethosts :
         ProbeCount(ProbeOf(m), a) = 1

\* C28: max_alive_hosts_reached is never reset; with it set, a loop condition
\* check never lets the sender into the loop body, in the current loop and in
\* every later one; and every probe is followed by such a check.  So after
\* the flag is set at most the one probe whose check preceded it is sent.
C28_AtMostOneProbeAfterCap ==
  [][/\ scan_restrictions.max_alive_hosts_reached
          => scan_restrictions'.max_alive_hosts_reached
     /\ (scan_restrictions.max_alive_hosts_reached /\ pc = "loop_check")
          => pc' # "loop_body"
     /\ probes' # probes
          => (pc = "loop_body" /\ pc' = "loop_check"
              /\ Len(probes') = Len(probes) + 1)]_vars

\* The flag was set while the sender was between its check and its probe,
\* with a target and a method loop still to come.
C28_Witness ==
  /\ scan_restrictions.max_alive_hosts_reached
  /\ pc = "loop_body"
  /\ ScanPlan(alive_test)[li] # "consider"
  /\ li < Len(ScanPlan(alive_test))
  /\ ti + 1 < Len(hosts)

\* The targets a probe was sent to.
ProbedTargets == {probes[i].addr : i \in DOMAIN probes}

C30_DeadBySizes ==
  deferred = {} =>
    \A i \in DOMAIN queue :
      queue[i].type = "DEADHOST" =>
        queue[i].val = Cardinality(targethosts)
                         - (Cardinality(alivehosts) - Cardinality(deferred))

\* C30 as amended: the DEADHOST number is the number of targets that are not
\* in alivehosts after the exclude step: |targets| minus the number of targets
\* in alivehosts; addresses in alivehosts that are not targets do not count.
C30_DeadIsTargetsOutsideAlive ==
  \A i \in DOMAIN queue :
    queue[i].type = "DEADHOST" =>
      queue[i].val = Cardinality(targethosts)
                       - Cardinality(alivehosts \cap targethosts)

\* A reply from an address that is not a target was captured, and the one
\* target, which replied too, is not counted dead.
C30_Witness ==
  /\ Cardinality(targethosts) = 1
  /\ Cardinality(alivehosts) = 2
  /\ Len(queue) > 0
  /\ queue[Len(queue)] = Item("DEADHOST", 0)

(* ----------------------- alive host bookkeeping ---------------------- *)
\* The run is driven by the sniffer callback only.
SnifferOnly == alive_test # {"CONSIDER_ALIVE"}

\* The alive hosts handle_scan_restrictions has dealt with.
Handled == Cardinality(PublishedHosts) + Cardinality(DeferredAddrs)

\* C31 as stated: in every reachable state of a run driven by the sniffer
\* callback only, the published and the deferred addresses are disjoint sets
\* of targets and alive_hosts_count is the sum of their sizes.
C31_CountIsPublishedPlusDeferred ==
  SnifferOnly =>
    /\ PublishedHosts \cap DeferredAddrs = {}
    /\ PublishedHosts \subseteq targethosts
    /\ DeferredAddrs \subseteq targethosts
    /\ scan_restrictions.alive_hosts_count = Handled

\* C31 as amended: in a run driven by the sniffer callback only the published
\* and the deferred addresses are always disjoint sets of targets;
\* alive_hosts_count is the sum of their sizes whenever the sniffer is in
\* pcap_loop between two callbacks, and otherwise is that sum or one more
\* (the target whose callback is in progress, or was cancelled before its
\* address was put on the queue); the callback is about to put an address on
\* the queue only while max_scan_hosts_reached is false, and into the deferred
\* table only while it is true.
C31_CountBetweenCallbacks ==
  SnifferOnly =>
    /\ PublishedHosts \cap DeferredAddrs = {}
    /\ PublishedHosts \subseteq targethosts
    /\ DeferredAddrs \subseteq targethosts
    /\ scan_restrictions.alive_hosts_count \in {Handled, Handled + 1}
    /\ (spc = "loop" /\ h["sniffer"].pc = "none")
         => scan_restrictions.alive_hosts_count = Handled
    /\ h["sniffer"].pc = "put_host"
         => ~scan_restrictions.max_scan_hosts_reached
    /\ h["sniffer"].pc = "defer"
         => scan_restrictions.max_scan_hosts_reached

\* With max_scan_hosts = 1 and two replying targets, one is published and one
\* deferred, and both are counted.
C31_Witness ==
  /\ SnifferOnly
  /\ spc = "loop"
  /\ h["sniffer"].pc = "none"
  /\ Cardinality(PublishedHosts) = 1
  /\ Cardinality(DeferredAddrs) = 1
  /\ scan_restrictions.alive_hosts_count = 2

\* C32: got_packet enters handle_scan_restrictions only with an address that
\* is a target and was not in alivehosts before; a step that leaves the
\* sniffer in pcap_loop outside handle_scan_restrictions (a frame from a
\* non-target, a repeated reply) leaves alive_hosts_count, both flags, the
\* deferred table and the queue unchanged.
C32_OnlyNewTargetsHandled ==
  [][/\ (h["sniffer"].pc = "none" /\ h'["sniffer"].pc # "none")
          => /\ h'["sniffer"].pc = "inc_load"
             /\ h'["sniffer"].addr \in targethosts
             /\ h'["sniffer"].addr \notin alivehosts
             /\ alivehosts' = alivehosts \cup {h'["sniffer"].addr}
             /\ UNCHANGED <<scan_restrictions, deferred, queue>>
     /\ (/\ spc = "loop" /\ spc' = "loop"
         /\ h["sniffer"].pc = "none" /\ h'["sniffer"].pc = "none"
         /\ h["main"].pc = "none")
          => UNCHANGED <<scan_restrictions, deferred, queue>>]_vars

\* A reply of a target and a frame from an address that is not a target have
\* been taken into alivehosts; only the target was counted and published.
C32_Witness ==
  /\ spc = "loop"
  /\ h["sniffer"].pc = "none"
  /\ SnifferOnly
  /\ Cardinality(targethosts) = 1
  /\ Cardinality(alivehosts) = 2
  /\ scan_restrictions.alive_hosts_count = 1
  /\ queue = <<HostItem(1)>>

\* C33: once alive_detection_init has run with max_alive_hosts >= 1,
\* alive_hosts_count never exceeds max_alive_hosts, in any reachable state.
C33_CountWithinAliveCap ==
  (tables # "none" /\ scan_restrictions.max_alive_hosts >= 1)
    => scan_restrictions.alive_hosts_count <= scan_restrictions.max_alive_hosts

\* C34 as stated, for the runs driven by the sniffer callback only: while the
\* tables are live no step removes an address from alivehosts.
C34_AliveHostsNeverShrinks ==
  [][(tables = "live" /\ SnifferOnly) => alivehosts \subseteq alivehosts']_vars

\* C34 as amended: while the tables are live, the only step that removes
\* addresses from alivehosts is the exclude step of
\* send_dead_hosts_to_ospd_openvas, after the sniffer was joined, and it
\* removes at most one address per deferred host; the sniffer callback and the
\* sender loops only add to alivehosts.
C34_OnlyExcludeShrinksAliveHosts ==
  [][/\ (tables = "live" /\ ~(alivehosts \subseteq alivehosts'))
          => (pc = "dead_hosts" /\ pc' = "cleanup_fin" /\ spc = "exited")
     /\ (pc = "dead_hosts" /\ pc' = "cleanup_fin")
          => /\ alivehosts' \subseteq alivehosts
             /\ Cardinality(alivehosts \ alivehosts')
                  <= Cardinality(deferred)]_vars

\* A deferred target, which the callback had put into alivehosts, is no
\* longer in it after the dead hosts were counted.
C34_Witness ==
  /\ SnifferOnly
  /\ pc = "cleanup_fin"
  /\ CountType("DEADHOST") = 1
  /\ \E a \in DeferredAddrs : a \notin alivehosts

(* -------------------------- sniffer lifecycle ------------------------ *)
\* scan () is past pthread_join () in a run that met no fatal error.
PastJoin ==
  /\ err = "none"
  /\ pc \in {"errmsg", "dead_hosts", "cleanup_fin", "free", "done", "crashed"}

\* C35: pcap_breakloop is called only after every sender loop has ended, the
\* cancellation only after the break; scan goes past the join only when the
\* sniffer thread is gone, after break and cancel; the capture handle is
\* closed and the tables are destroyed only when no sniffer thread runs; so
\* a running sniffer, and its callback, always has an open handle and live
\* tables.
C35_SnifferLifecycle ==
  /\ break_requested =>
       /\ li > Len(ScanPlan(alive_test))
       /\ pc \in {"cancel", "join", "errmsg", "dead_hosts", "cleanup_fin",
                  "free", "done", "crashed"}
  /\ cancel_pending => break_requested
  /\ PastJoin => (spc = "exited" /\ break_requested /\ cancel_pending)
  /\ pcap_handle = "closed" => spc = "exited"
  /\ tables = "destroyed" => spc \in {"none", "exited"}
  /\ CountType("DEADHOST") > 0 => spc = "exited"
  /\ spc \notin {"none", "exited"} => (pcap_handle = "open" /\ tables = "live")
  /\ h["sniffer"].pc # "none" => spc = "loop"

\* A run in which the callback handled a reply has joined the sniffer, closed
\* the handle and destroyed the tables.
C35_Witness ==
  /\ pc = "done"
  /\ err = "none"
  /\ spc = "exited"
  /\ pcap_handle = "closed"
  /\ tables = "destroyed"
  /\ scan_restrictions.alive_hosts_count > 0
  /\ Len(probes) > 0

(* ------------------------------ pacing ------------------------------- *)
\* C36 as stated: whenever a sender has paused in a run, exactly BURST probes
\* were sent before its latest pause, counted from the pause before it or,
\* for the first pause, from the start of the run; in every run.
C36_PauseAfterBurstProbes ==
  \A s \in Senders : pauses[s] >= 1 => gap[s] = BURST

\* C36 as amended: a sender pauses just before it sends a probe whose number,
\* counted over all runs of the process, is a multiple of BURST.  Exactly
\* BURST probes are sent between two consecutive pauses of a run; the first
\* pause of a run comes after BURST - 1 - (c mod BURST) probes, where c is the
\* counter the run started with: after BURST - 1 probes in the first run.
C36_PauseBeforeEveryBurstthProbe ==
  \A s \in Senders :
    /\ pauses[s] >= 2 => gap[s] = BURST
    /\ pauses[s] = 1 => gap[s] = BURST - 1 - (run_base[s] % BURST)
    /\ pauses[s] = 0 =>
         /\ since[s] = count[s] - run_base[s]
         /\ since[s] <= BURST - 1 - (run_base[s] % BURST)
    /\ pauses[s] >= 1 => since[s] = (count[s] % BURST) + 1

\* A second run that started with a counter that is not a multiple of BURST
\* has paused twice.
C36_Witness ==
  /\ run = 2
  /\ run_base["send_icmp"] % BURST = 1
  /\ pauses["send_icmp"] = 2

(* ------------------------------ teardown ----------------------------- *)
\* C37: once alive_detection_free has run, it has gone through the close of
\* every socket of the method set and through kb_lnk_reset, the tables are
\* destroyed, and start_alive_detection goes on to its exit.
C37_EveryReleaseStepAttempted ==
  free_err # "unset" =>
    /\ release_calls = ReleaseSteps(alive_test)
    /\ tables = "destroyed"
    /\ socks = {}

\* C38: in a run with max_scan_hosts >= 1, max_alive_hosts_reached implies
\* max_scan_hosts_reached, in every reachable state.
C38_AliveCapImpliesScanCap ==
  (tables # "none" /\ scan_restrictions.max_scan_hosts >= 1) =>
    (scan_restrictions.max_alive_hosts_reached
       => scan_restrictions.max_scan_hosts_reached)

(* ----------------------------- task polling -------------------------- *)
\* C39: omp_wait_for_task_start returns whenever the task is in a run state
\* in which it is running or will never start running.
C39_WaitForTaskStartReturns ==
  [](((omp_fn = "start" /\ task_status \in FinalStates \cup {"Running"})
       => <>(omp_pc = "returned")))

\* What the response read last says about the task waited for.
Observed == FindRunState(entity.children, 1, id)

\* The response read last is a 2xx response that holds the task waited for
\* with the run state st.
ObservedState(st) ==
  /\ entity.status # NULL
  /\ Is2xx(entity.status)
  /\ Observed = <<"found", st>>

\* C40: omp_wait_for_task_end returns 0 only when it observed the task with
\* run state Done, and 1 only when it observed it with run state Internal
\* Error.
C40_WaitForTaskEndReturnValues ==
  omp_fn = "end" =>
    /\ omp_ret = <<0>> => ObservedState("Done")
    /\ omp_ret = <<1>> => ObservedState("Internal Error")

====
